---- MODULE Spec2Model ----
(***************************************************************************)
(* Learny: the quiz attempt lifecycle (handleQuizStart / handleQuizFinish) *)
(* over the attempts and answers tables.  Every storage call of a handler  *)
(* is one step of the request that runs it; a storage call may fail.       *)
(***************************************************************************)
EXTENDS Integers, Sequences, FiniteSets, TLC

VARIABLES
    now,        \* wall clock / database clock, in seconds
    users,      \* ids of the rows of table users
    quizzes,    \* table quizzes: quiz id -> stored rules JSON
    attempts,   \* table attempts: row i has id i (BIGSERIAL)
    answers,    \* table answers, in insertion order
    req,        \* the requests being served: slot -> handler locals
    served,     \* how many requests the server has accepted so far
    loginLimiter \* Server.loginLimiter: client IP -> loginBucket

vars == <<now, users, quizzes, attempts, answers, req, served, loginLimiter>>

(* ------------------------------ bounds --------------------------------- *)

MaxTime == 2
MaxRequests == 3

(* --------------------------- nullable columns -------------------------- *)

Null == <<>>
Some(v) == <<v>>
IsNull(x) == x = <<>>
Val(x) == x[1]

(* ------------------------------ quiz rules ----------------------------- *)

DefaultCount == 10

\* The rules JSON of a quiz as stored; an absent key decodes to 0.
RuleChoices ==
    { [count |-> 2, time_limit_sec |-> 0, max_attempts |-> 2, retake_cooldown_sec |-> 0],
      [count |-> 1, time_limit_sec |-> 1, max_attempts |-> 1, retake_cooldown_sec |-> 0],
      [count |-> 0, time_limit_sec |-> 1, max_attempts |-> 0, retake_cooldown_sec |-> 1],
      [count |-> 1, time_limit_sec |-> 0, max_attempts |-> 2, retake_cooldown_sec |-> 1] }

\* Mutant: the stored rules are returned as decoded, without a default.
LoadQuizRulesAsStored(raw) == raw

\* Repo.LoadQuizRules on an existing row: count 0 becomes 10.
LoadQuizRules(raw) ==
    [raw EXCEPT !.count = IF raw.count = 0 THEN DefaultCount ELSE raw.count]

(* ---------------------------- question bank ---------------------------- *)

\* payload_json of a question: a JSON value, an object with its members or
\* something else (a string, an array, null).
Object(members) == [object |-> TRUE, members |-> members]
NotAnObject == [object |-> FALSE, members |-> <<>>]

\* encoding/json matches an object key to a struct field that has no tag by
\* the field's name, letter case ignored: the case-folded form of a name.
KeyFold(k) ==
    CASE k = "Correct"      -> "correct"
      [] k = "CorrectValue" -> "correctvalue"
      [] k = "Accept"       -> "accept"
      [] OTHER              -> k

\* _ = json.Unmarshal(q.Payload, &p), read at one field of p: the member whose
\* key matches the field, else the field's zero value (the error is dropped).
Unmarshal(payload, field, zero) ==
    LET ks == IF payload.object
              THEN { k \in DOMAIN payload.members : KeyFold(k) = KeyFold(field) }
              ELSE {}
    IN  IF ks = {} THEN zero ELSE payload.members[CHOOSE k \in ks : TRUE]

\* Table questions (never written by the two handlers): id -> row.
Questions ==
    <<[course_id |-> 1, qtype |-> "single",
       payload |-> Object([text |-> "t", correct |-> <<1>>])],
      [course_id |-> 1, qtype |-> "multiple",
       payload |-> Object([text |-> "t", correct |-> <<0, 1>>])]>>

QuestionIds == DOMAIN Questions

\* Submitted form values ([]string) of one question key.
ValLists == { <<"1">>, <<"0", "1">>, <<"x">> }

\* strconv.Atoi on the submitted tokens: <<ok, value>>.
Atoi(sv) ==
    CASE sv = "0"  -> <<TRUE, 0>>
      [] sv = "1"  -> <<TRUE, 1>>
      [] sv = "01" -> <<TRUE, 1>>
      [] sv = "3"  -> <<TRUE, 3>>
      [] sv = "5"  -> <<TRUE, 5>>
      [] OTHER     -> <<FALSE, 0>>

\* float64 values are counted in steps of 5e-10: 1e-9 is two steps.
Tolerance == 2
Half == 1000000000

\* strconv.ParseFloat(sv, 64) on the tokens submitted for a numeric question:
\* <<ok, value>>, the value 0 on a syntax error.
ParseFloat(sv) ==
    CASE sv = "0"     -> <<TRUE, 0>>
      [] sv = "0.5"   -> <<TRUE, Half>>
      [] sv = "5e-10" -> <<TRUE, 1>>
      [] sv = "1e-9"  -> <<TRUE, 2>>
      [] sv = "x"     -> <<FALSE, 0>>
      [] sv = ""      -> <<FALSE, 0>>

\* strings.TrimSpace on the strings of the text questions.
TrimSpace(sv) ==
    CASE sv = " PARIS" -> "PARIS"
      [] sv = "paris " -> "paris"
      [] sv = " "      -> ""
      [] OTHER         -> sv

\* strings.ToLower on the same strings.
ToLower(sv) ==
    CASE sv = "PARIS"  -> "paris"
      [] sv = "Paris"  -> "paris"
      [] sv = " PARIS" -> " paris"
      [] sv = "Rome"   -> "rome"
      [] OTHER         -> sv

firstOrEmpty(a) == IF Len(a) > 0 THEN a[1] ELSE ""

intSliceToSet(a) == { a[i] : i \in DOMAIN a }

setEq(a, b) == Cardinality(a) = Cardinality(b) /\ \A k \in a : k \in b

abs(x) == IF x < 0 THEN -x ELSE x

containsCI(hay, needle) ==
    LET n == ToLower(TrimSpace(needle))
    IN  \E i \in DOMAIN hay : ToLower(TrimSpace(hay[i])) = n

\* Mutant: the chosen index is looked up anywhere in the correct list.
GradeAnyCorrect(q, rawVals) ==
    CASE q.qtype = "single" ->
            LET correct == Unmarshal(q.payload, "Correct", <<>>)
                chosenIdx == Atoi(firstOrEmpty(rawVals))[2]
            IN  Some(\E i \in DOMAIN correct : chosenIdx = correct[i])
      [] OTHER -> Null

\* Mutant: every chosen index must be a correct one (a subset passes).
GradeSubset(q, rawVals) ==
    CASE q.qtype = "multiple" ->
            LET correct == Unmarshal(q.payload, "Correct", <<>>)
                chosen == { Atoi(rawVals[i])[2] :
                              i \in { j \in DOMAIN rawVals : Atoi(rawVals[j])[1] } }
            IN  Some(chosen \subseteq intSliceToSet(correct))
      [] OTHER -> Null

\* Mutant: the submitted text is compared as typed.
GradeExactText(q, rawVals) ==
    CASE q.qtype = "text" ->
            LET accept == Unmarshal(q.payload, "Accept", <<>>)
                ans == firstOrEmpty(rawVals)
            IN  Some(\E i \in DOMAIN accept : accept[i] = ans)
      [] OTHER -> Null

\* The type switch of handleQuizFinish: the *bool isCorrect of one question.
Grade(q, rawVals) ==
    CASE q.qtype = "single" ->
            LET correct == Unmarshal(q.payload, "Correct", <<>>)
                chosenIdx == Atoi(firstOrEmpty(rawVals))[2]
            IN  Some(Len(correct) > 0 /\ chosenIdx = correct[1])
      [] q.qtype = "multiple" ->
            LET correct == Unmarshal(q.payload, "Correct", <<>>)
                chosen == { Atoi(rawVals[i])[2] :
                              i \in { j \in DOMAIN rawVals : Atoi(rawVals[j])[1] } }
            IN  Some(setEq(chosen, intSliceToSet(correct)))
      [] q.qtype = "numeric" ->
            LET correctValue == Unmarshal(q.payload, "CorrectValue", 0)
                val == ParseFloat(firstOrEmpty(rawVals))[2]
            IN  Some(abs(val - correctValue) < Tolerance)
      [] q.qtype = "text" ->
            LET accept == Unmarshal(q.payload, "Accept", <<>>)
                ans == TrimSpace(firstOrEmpty(rawVals))
            IN  Some(containsCI(accept, ans))
      [] OTHER -> Null

(* --------------------------- request locals ---------------------------- *)

\* The locals of a handler invocation.  fault (the storage calls of this
\* request that returned an error) and graded (the turns of the grading loop
\* that saved their answer) are history the properties read; no step reads
\* them.
IdleReq ==
    [op |-> "none", pc |-> "idle", uid |-> 0, quiz_id |-> 0, course_id |-> 0,
     attempt_id |-> 0, rules |-> Null, since |-> Null, picked |-> {},
     qs |-> {}, graded |-> 0, correctCount |-> 0, dur |-> Null, resp |-> "none",
     fault |-> {}]

Slots == DOMAIN req

Free(s) == req[s].pc \in {"idle", "done"}

\* The server accepts a request into slot s.
Accept(s) == Free(s) /\ served < MaxRequests /\ served' = served + 1

At(s, op, pc) == req[s].op = op /\ req[s].pc = pc

\* The handler goes on with its locals changed to r.
Goto(s, r) == req' = [req EXCEPT ![s] = r]

\* The handler writes its response and returns: its working locals are gone,
\* the request's parameters (dur, the elapsed seconds it reported, once they
\* are read), the response (picked, the questions of the rendered quiz page)
\* and the history stay on record
\* until the slot serves the next request.
Reply(s, r, resp) ==
    req' = [req EXCEPT ![s] =
              [IdleReq EXCEPT !.op = r.op, !.pc = "done", !.resp = resp,
                              !.uid = r.uid, !.quiz_id = r.quiz_id,
                              !.attempt_id = r.attempt_id, !.since = r.since,
                              !.picked = r.picked, !.dur = r.dur,
                              !.fault = r.fault]]

Faulted(r, tag) == [r EXCEPT !.fault = @ \cup {tag}]

(* ------------------------------ repository ----------------------------- *)

\* Mutant: only finished attempts count against the limit.
TotalFinishedAttemptsByUserQuiz(tbl, uid, qid) ==
    Cardinality({ i \in DOMAIN tbl :
                    /\ tbl[i].user_id = uid
                    /\ tbl[i].quiz_id = qid
                    /\ ~IsNull(tbl[i].finished_at) })

\* Mutant: the attempts of every user on the quiz are counted.
TotalAttemptsByQuiz(tbl, uid, qid) ==
    Cardinality({ i \in DOMAIN tbl : tbl[i].quiz_id = qid })

\* SELECT COUNT(*) FROM attempts WHERE user_id=$1 AND quiz_id=$2
TotalAttemptsByUserQuiz(tbl, uid, qid) ==
    Cardinality({ i \in DOMAIN tbl : tbl[i].user_id = uid /\ tbl[i].quiz_id = qid })

\* Mutant: started_at > $3, the boundary second is let through.
AttemptsAfterByUserQuiz(tbl, uid, qid, since) ==
    Cardinality({ i \in DOMAIN tbl :
                    /\ tbl[i].user_id = uid
                    /\ tbl[i].quiz_id = qid
                    /\ tbl[i].started_at > since })

\* ... AND started_at >= $3
AttemptsSinceByUserQuiz(tbl, uid, qid, since) ==
    Cardinality({ i \in DOMAIN tbl :
                    /\ tbl[i].user_id = uid
                    /\ tbl[i].quiz_id = qid
                    /\ tbl[i].started_at >= since })

\* INSERT INTO attempts(quiz_id, user_id): started_at defaults to now(), the
\* result columns to NULL, overtime to false.
NewAttempt(qid, uid, t) ==
    [quiz_id |-> qid, user_id |-> uid, started_at |-> t,
     finished_at |-> Null, total_score |-> Null,
     duration_sec |-> Null, overtime |-> FALSE]

\* The foreign keys of attempts(quiz_id, user_id).
AttemptKeysOk(qid, uid) == qid \in DOMAIN quizzes /\ uid \in users

\* Mutant: the query has no LIMIT.
PickQuestionsUnlimited(course, rules) ==
    { { q \in QuestionIds : Questions[q].course_id = course } }

\* SELECT ... FROM questions WHERE course_id = $1 ORDER BY random() LIMIT $2:
\* the possible samples.
PickQuestions(course, rules) ==
    LET total == IF rules.count <= 0 THEN DefaultCount ELSE rules.count
        pool  == { q \in QuestionIds : Questions[q].course_id = course }
        n     == IF Cardinality(pool) < total THEN Cardinality(pool) ELSE total
    IN  { S \in SUBSET pool : Cardinality(S) = n }

(* --------------------------- handleQuizStart --------------------------- *)

Courses == {1}

\* Mutant: the cooldown gate is evaluated before the attempt-limit gate.
StartGateCooldownFirst(s, uid, qid, course) ==
    /\ Accept(s)
    /\ LET r == [IdleReq EXCEPT !.op = "start", !.uid = uid, !.quiz_id = qid,
                                !.course_id = course]
       IN  IF qid \in DOMAIN quizzes
           THEN LET rules == LoadQuizRules(quizzes[qid])
                    since == now - rules.retake_cooldown_sec
                    r1 == [r EXCEPT !.rules = Some(rules), !.pc = "gate_cooldown"]
                IN  IF /\ rules.retake_cooldown_sec > 0
                       /\ AttemptsSinceByUserQuiz(attempts, uid, qid, since) > 0
                    THEN Reply(s, [r1 EXCEPT !.since = Some(since)], "cooldown")
                    ELSE IF /\ rules.max_attempts > 0
                            /\ TotalAttemptsByUserQuiz(attempts, uid, qid)
                                  >= rules.max_attempts
                         THEN Reply(s, r1, "limit")
                         ELSE Goto(s, r1)
           ELSE Reply(s, Faulted(r, "rules"), "error")
    /\ UNCHANGED <<now, users, quizzes, attempts, answers>>

\* GET /quiz/start?course_id=..&quiz_id=.. of a logged-in user, up to the
\* attempt-limit gate:
\*   rules, title, err := s.Repo.LoadQuizRules(quizID)    (an error is a 500)
\*   if rules.MaxAttempts > 0 { total, _ := TotalAttemptsByUserQuiz(...) ... }
\* A failed count leaves total at 0.
StartGateLimit(s, uid, qid, course) ==
    /\ Accept(s)
    /\ LET r == [IdleReq EXCEPT !.op = "start", !.uid = uid, !.quiz_id = qid,
                                !.course_id = course]
       IN  \E loaded \in BOOLEAN :
             IF loaded /\ qid \in DOMAIN quizzes
             THEN LET rules == LoadQuizRules(quizzes[qid])
                      r1 == [r EXCEPT !.rules = Some(rules), !.pc = "gate_cooldown"]
                  IN  IF rules.max_attempts > 0
                      THEN \E ok \in BOOLEAN :
                             LET total == IF ok
                                          THEN TotalAttemptsByUserQuiz(attempts, uid, qid)
                                          ELSE 0
                                 r2 == IF ok THEN r1 ELSE Faulted(r1, "total")
                             IN  IF total >= rules.max_attempts
                                 THEN Reply(s, r2, "limit")
                                 ELSE Goto(s, r2)
                      ELSE Goto(s, r1)
             ELSE Reply(s, Faulted(r, "rules"), "error")
    /\ UNCHANGED <<now, users, quizzes, attempts, answers>>

\* Mutant: a start refused by the cooldown gate is itself recorded as an
\* attempt.
StartGateCooldownLogged(s) ==
    /\ At(s, "start", "gate_cooldown")
    /\ LET r == req[s]
           rules == Val(r.rules)
           since == now - rules.retake_cooldown_sec
       IN  IF /\ rules.retake_cooldown_sec > 0
              /\ AttemptsSinceByUserQuiz(attempts, r.uid, r.quiz_id, since) > 0
           THEN /\ attempts' = Append(attempts, NewAttempt(r.quiz_id, r.uid, now))
                /\ Reply(s, [r EXCEPT !.since = Some(since)], "cooldown")
           ELSE /\ \E S \in PickQuestions(r.course_id, rules) :
                     Goto(s, [r EXCEPT !.pc = "create", !.picked = S])
                /\ UNCHANGED attempts
    /\ UNCHANGED <<now, users, quizzes, answers, served>>

\* The cooldown gate and the sampling:
\*   if rules.RetakeCooldownSec > 0 { since := now - cooldown; count, _ := ... }
\*   qs, err := s.Repo.PickQuestions(courseID, rules)     (an error is a 500)
StartGateCooldown(s) ==
    /\ At(s, "start", "gate_cooldown")
    /\ LET r == req[s]
           rules == Val(r.rules)
           Pick(r1) ==
               \/ \E S \in PickQuestions(r1.course_id, rules) :
                    Goto(s, [r1 EXCEPT !.pc = "create", !.picked = S])
               \/ Reply(s, Faulted(r1, "pick"), "error")
       IN  IF rules.retake_cooldown_sec > 0
           THEN \E ok \in BOOLEAN :
                  LET since == now - rules.retake_cooldown_sec
                      count == IF ok
                               THEN AttemptsSinceByUserQuiz(attempts, r.uid, r.quiz_id, since)
                               ELSE 0
                      r1 == [(IF ok THEN r ELSE Faulted(r, "since"))
                               EXCEPT !.since = Some(since)]
                  IN  IF count > 0 THEN Reply(s, r1, "cooldown") ELSE Pick(r1)
           ELSE Pick(r)
    /\ UNCHANGED <<now, users, quizzes, attempts, answers, served>>

\* attemptID, err := s.Repo.CreateAttempt(quizID, uid); then the quiz page.
StartCreate(s) ==
    /\ At(s, "start", "create")
    /\ LET r == req[s] IN
       \E ok \in BOOLEAN :
         IF ok /\ AttemptKeysOk(r.quiz_id, r.uid)
         THEN /\ attempts' = Append(attempts, NewAttempt(r.quiz_id, r.uid, now))
              /\ Reply(s, [r EXCEPT !.attempt_id = Len(attempts) + 1], "quiz")
         ELSE /\ Reply(s, Faulted(r, "create"), "error")
              /\ UNCHANGED attempts
    /\ UNCHANGED <<now, users, quizzes, answers, served>>

(* --------------------------- handleQuizFinish -------------------------- *)

\* The keys of the posted form that name a question, in a fixed order.
FormKeys == <<"q_1", "q_01", "q_2">>

\* strings.TrimPrefix(key, "q_") and strconv.ParseInt: <<ok, qid>>.
KeyQid(key) ==
    CASE key = "q_1"  -> <<TRUE, 1>>
      [] key = "q_01" -> <<TRUE, 1>>
      [] key = "q_2"  -> <<TRUE, 2>>
      [] OTHER        -> <<FALSE, 0>>

\* qIDs: one entry per posted key that parses (a question id may repeat).
FormQIDs(keys) ==
    LET posted == SelectSeq(FormKeys, LAMBDA k : k \in keys /\ KeyQid(k)[1])
    IN  [i \in DOMAIN posted |-> KeyQid(posted[i])[2]]

\* SELECT ... FROM questions WHERE id IN ($1, ...): each matching row once.
FetchQuestionsByIDs(ids) ==
    IF Len(ids) = 0 THEN {}
    ELSE { q \in QuestionIds : \E i \in DOMAIN ids : ids[i] = q }

\* Mutant: column is_correct is NOT NULL DEFAULT false.
NewAnswerNotNull(aid, qid, isCorrect) ==
    [attempt_id |-> aid, question_id |-> qid,
     is_correct |-> IF IsNull(isCorrect) THEN Some(FALSE) ELSE isCorrect]

\* INSERT INTO answers(attempt_id, question_id, is_correct, answer)
NewAnswer(aid, qid, isCorrect) ==
    [attempt_id |-> aid, question_id |-> qid, is_correct |-> isCorrect]

\* Mutant: a score of zero is written as NULL.
SetAttemptResultNonZero(tbl, aid, finishedAt, score) ==
    IF aid \in DOMAIN tbl
    THEN [tbl EXCEPT ![aid].finished_at = Some(finishedAt),
                     ![aid].total_score = IF score = 0 THEN Null ELSE Some(score)]
    ELSE tbl

\* UPDATE attempts SET finished_at=$2, total_score=$3 WHERE id=$1
SetAttemptResult(tbl, aid, finishedAt, score) ==
    IF aid \in DOMAIN tbl
    THEN [tbl EXCEPT ![aid].finished_at = Some(finishedAt),
                     ![aid].total_score = Some(score)]
    ELSE tbl

\* UPDATE attempts SET duration_sec=$2, overtime=$3 WHERE id=$1
SetAttemptTiming(tbl, aid, durationSec, overtime) ==
    IF aid \in DOMAIN tbl
    THEN [tbl EXCEPT ![aid].duration_sec = Some(durationSec),
                     ![aid].overtime = overtime]
    ELSE tbl

\* elapsed_sec as the client may report it.
ElapsedInputs == {0, 1, 2}

\* POST /quiz/finish up to the grading loop.  The form carries attempt_id,
\* quiz_id and the q_<id> keys; a body that does not parse is a 400.
\*   qs, err := s.Repo.FetchQuestionsByIDs(qIDs)          (an error is a 500)
\*   if quizID > 0 { rules, _, _ = s.Repo.LoadQuizRules(quizID) }
\* rules stays nil without a quiz id, for an unknown quiz and on a failed read.
FinishFetch(s, uid, aid, qid, keys, parses) ==
    /\ Accept(s)
    /\ LET r == [IdleReq EXCEPT !.op = "finish", !.uid = uid] IN
       IF ~parses
       THEN Reply(s, r, "bad_request")
       ELSE LET r1 == [r EXCEPT !.attempt_id = aid, !.pc = "grade"]
                qIDs == FormQIDs(keys)
            IN  \/ /\ Len(qIDs) > 0
                   /\ Reply(s, Faulted(r1, "fetch"), "error")
                \/ LET r2 == [r1 EXCEPT !.qs = FetchQuestionsByIDs(qIDs)] IN
                   IF qid > 0
                   THEN \/ /\ qid \in DOMAIN quizzes
                           /\ Goto(s, [r2 EXCEPT !.rules = Some(LoadQuizRules(quizzes[qid]))])
                        \/ Goto(s, Faulted(r2, "rules"))
                   ELSE Goto(s, r2)
    /\ UNCHANGED <<now, users, quizzes, attempts, answers>>

\* Mutant: the error of SaveAnswer is dropped and the loop goes on.
FinishGradeSkipFailed(s) ==
    /\ At(s, "finish", "grade")
    /\ LET r == req[s] IN
       \E q \in r.qs, rawVals \in ValLists, ok \in BOOLEAN :
         LET isCorrect == Grade(Questions[q], rawVals)
             n == IF isCorrect = Some(TRUE) THEN r.correctCount + 1 ELSE r.correctCount
             r1 == [r EXCEPT !.qs = @ \ {q}, !.correctCount = n, !.graded = @ + 1]
         IN  IF ok /\ r.attempt_id \in DOMAIN attempts
             THEN /\ answers' = Append(answers, NewAnswer(r.attempt_id, q, isCorrect))
                  /\ Goto(s, r1)
             ELSE /\ Goto(s, Faulted(r1, "save"))
                  /\ UNCHANGED answers
    /\ UNCHANGED <<now, users, quizzes, attempts, served>>

\* Mutant: a correct multiple-choice question counts double.
FinishGradeWeighted(s) ==
    /\ At(s, "finish", "grade")
    /\ LET r == req[s] IN
       \E q \in r.qs, rawVals \in ValLists, ok \in BOOLEAN :
         LET isCorrect == Grade(Questions[q], rawVals)
             w == IF Questions[q].qtype = "multiple" THEN 2 ELSE 1
             n == IF isCorrect = Some(TRUE) THEN r.correctCount + w ELSE r.correctCount
         IN  IF ok /\ r.attempt_id \in DOMAIN attempts
             THEN /\ answers' = Append(answers, NewAnswer(r.attempt_id, q, isCorrect))
                  /\ Goto(s, [r EXCEPT !.qs = @ \ {q}, !.correctCount = n,
                                        !.graded = @ + 1])
             ELSE /\ Reply(s, Faulted(r, "save"), "error")
                  /\ UNCHANGED answers
    /\ UNCHANGED <<now, users, quizzes, attempts, served>>

\* One turn of the loop over the fetched questions (they come in any order):
\* grade q on its posted values and SaveAnswer; a failed insert (the
\* attempt_id foreign key included) is a 500.
FinishGrade(s) ==
    /\ At(s, "finish", "grade")
    /\ LET r == req[s] IN
       \E q \in r.qs, rawVals \in ValLists, ok \in BOOLEAN :
         LET isCorrect == Grade(Questions[q], rawVals)
             n == IF isCorrect = Some(TRUE) THEN r.correctCount + 1 ELSE r.correctCount
         IN  IF ok /\ r.attempt_id \in DOMAIN attempts
             THEN /\ answers' = Append(answers, NewAnswer(r.attempt_id, q, isCorrect))
                  /\ Goto(s, [r EXCEPT !.qs = @ \ {q}, !.correctCount = n,
                                        !.graded = @ + 1])
             ELSE /\ Reply(s, Faulted(r, "save"), "error")
                  /\ UNCHANGED answers
    /\ UNCHANGED <<now, users, quizzes, attempts, served>>

\* After the loop: SetAttemptResult(attemptID, &now, &score); an error is a 500.
FinishSetResult(s) ==
    /\ At(s, "finish", "grade")
    /\ req[s].qs = {}
    /\ LET r == req[s] IN
       \/ /\ attempts' = SetAttemptResult(attempts, r.attempt_id, now, r.correctCount)
          /\ Goto(s, [r EXCEPT !.pc = "timing"])
       \/ /\ Reply(s, Faulted(r, "result"), "error")
          /\ UNCHANGED attempts
    /\ UNCHANGED <<now, users, quizzes, answers, served>>

\* Mutant: an elapsed time equal to the limit already counts as overtime.
FinishSetTimingInclusive(s) ==
    /\ At(s, "finish", "timing")
    /\ \E elapsed \in ElapsedInputs, ok \in BOOLEAN :
         LET r == [req[s] EXCEPT !.dur = Some(elapsed)]
             overtime == /\ ~IsNull(r.rules)
                         /\ Val(r.rules).time_limit_sec > 0
                         /\ elapsed >= Val(r.rules).time_limit_sec
         IN  IF ok
             THEN /\ attempts' = SetAttemptTiming(attempts, r.attempt_id, elapsed, overtime)
                  /\ Reply(s, r, "result")
             ELSE /\ Reply(s, Faulted(r, "timing"), "result")
                  /\ UNCHANGED attempts
    /\ UNCHANGED <<now, users, quizzes, answers, served>>

\* dur := int(clientElapsed); overtime; _ = SetAttemptTiming(...): the error is
\* dropped and the result page rendered.
FinishSetTiming(s) ==
    /\ At(s, "finish", "timing")
    /\ \E elapsed \in ElapsedInputs, ok \in BOOLEAN :
         LET r == [req[s] EXCEPT !.dur = Some(elapsed)]
             overtime == /\ ~IsNull(r.rules)
                         /\ Val(r.rules).time_limit_sec > 0
                         /\ elapsed > Val(r.rules).time_limit_sec
         IN  IF ok
             THEN /\ attempts' = SetAttemptTiming(attempts, r.attempt_id, elapsed, overtime)
                  /\ Reply(s, r, "result")
             ELSE /\ Reply(s, Faulted(r, "timing"), "result")
                  /\ UNCHANGED attempts
    /\ UNCHANGED <<now, users, quizzes, answers, served>>

(* ------------------------------- system -------------------------------- *)

\* A second passes.
Tick ==
    /\ now < MaxTime
    /\ now' = now + 1
    /\ UNCHANGED <<users, quizzes, attempts, answers, req, served, loginLimiter>>

\* One user, one quiz with any of the rule sets, empty tables, one request
\* served at a time.
Init ==
    /\ now = 0
    /\ users = {1}
    /\ quizzes \in [{1} -> RuleChoices]
    /\ attempts = <<>>
    /\ answers = <<>>
    /\ req = [s \in {1} |-> IdleReq]
    /\ served = 0
    /\ loginLimiter = <<>>

\* The requests a logged-in client may send, and the steps of the handlers
\* serving them.
QuizStart ==
    /\ \E s \in Slots, uid \in users, qid \in (DOMAIN quizzes) \cup {0}, course \in Courses :
         StartGateLimit(s, uid, qid, course)
    /\ UNCHANGED loginLimiter

QuizStartCooldown == (\E s \in Slots : StartGateCooldown(s)) /\ UNCHANGED loginLimiter

QuizStartCreate == (\E s \in Slots : StartCreate(s)) /\ UNCHANGED loginLimiter

QuizFinish ==
    /\ \E s \in Slots, uid \in users, aid \in 0..Len(attempts),
          qid \in (DOMAIN quizzes) \cup {0},
          keys \in SUBSET { FormKeys[i] : i \in DOMAIN FormKeys }, parses \in BOOLEAN :
         FinishFetch(s, uid, aid, qid, keys, parses)
    /\ UNCHANGED loginLimiter

QuizFinishGrade == (\E s \in Slots : FinishGrade(s)) /\ UNCHANGED loginLimiter

QuizFinishResult == (\E s \in Slots : FinishSetResult(s)) /\ UNCHANGED loginLimiter

QuizFinishTiming == (\E s \in Slots : FinishSetTiming(s)) /\ UNCHANGED loginLimiter

Next ==
    \/ Tick
    \/ QuizStart
    \/ QuizStartCooldown
    \/ QuizStartCreate
    \/ QuizFinish
    \/ QuizFinishGrade
    \/ QuizFinishResult
    \/ QuizFinishTiming

Spec == Init /\ [][Next]_vars

(* ------------------- two users and two quizzes ------------------------- *)

\* Rules with a limit of one attempt, and rules with a cooldown only.
MultiRuleChoices ==
    { [count |-> 1, time_limit_sec |-> 0, max_attempts |-> 1, retake_cooldown_sec |-> 0],
      [count |-> 1, time_limit_sec |-> 0, max_attempts |-> 0, retake_cooldown_sec |-> 1] }

\* The server after it has served one start request, of user uid on quiz qid
\* with the question picked, at second 0: the attempt is on record and the
\* slot holds the answered request.
MultiInit ==
    /\ now = 0
    /\ users = {1, 2}
    /\ \E rules \in MultiRuleChoices : quizzes = [q \in {1, 2} |-> rules]
    /\ answers = <<>>
    /\ served = 1
    /\ loginLimiter = <<>>
    /\ \E uid \in users, qid \in DOMAIN quizzes :
       \E S \in PickQuestions(1, quizzes[qid]) :
         /\ attempts = <<NewAttempt(qid, uid, 0)>>
         /\ req = [s \in {1} |->
                     [IdleReq EXCEPT !.op = "start", !.pc = "done", !.resp = "quiz",
                                     !.uid = uid, !.quiz_id = qid, !.attempt_id = 1,
                                     !.picked = S,
                                     !.since = IF quizzes[qid].retake_cooldown_sec > 0
                                               THEN Some(0 - quizzes[qid].retake_cooldown_sec)
                                               ELSE Null]]

\* The forms of a submission that the two users send: well-formed, for an
\* attempt on record and a quiz on record, answering question 1 or both.
MultiFormKeys == { {"q_1"}, {"q_1", "q_2"} }

MultiQuizStart ==
    /\ \E s \in Slots, uid \in users, qid \in DOMAIN quizzes, course \in Courses :
         StartGateLimit(s, uid, qid, course)
    /\ UNCHANGED loginLimiter

MultiQuizFinish ==
    /\ \E s \in Slots, uid \in users, aid \in DOMAIN attempts,
          qid \in DOMAIN quizzes, keys \in MultiFormKeys :
         FinishFetch(s, uid, aid, qid, keys, TRUE)
    /\ UNCHANGED loginLimiter

MultiNext ==
    \/ Tick
    \/ MultiQuizStart
    \/ QuizStartCooldown
    \/ QuizStartCreate
    \/ MultiQuizFinish
    \/ QuizFinishGrade
    \/ QuizFinishResult
    \/ QuizFinishTiming

MultiSpec == MultiInit /\ [][MultiNext]_vars

(* ----------------------- the grading switch alone ---------------------- *)

\* Payloads as the imports store them (keys text, choices, correct,
\* correct_value, accept) and payloads of another shape.
SinglePayloads ==
    { Object([text |-> "t", correct |-> <<1>>]),
      Object([text |-> "t", correct |-> <<0>>]),
      Object([text |-> "t", correct |-> <<3, 1>>]),
      Object([text |-> "t", correct |-> <<>>]),
      Object([text |-> "t"]),
      NotAnObject }

MultiplePayloads ==
    { Object([text |-> "t", correct |-> <<1, 3>>]),
      Object([text |-> "t", correct |-> <<3, 1>>]),
      Object([text |-> "t", correct |-> <<0>>]),
      Object([text |-> "t", correct |-> <<>>]),
      Object([text |-> "t"]),
      NotAnObject }

NumericPayloads ==
    { Object([text |-> "t", correct_value |-> Half]),
      Object([text |-> "t", correct_value |-> 1]),
      Object([text |-> "t", correct_value |-> 0]),
      Object([text |-> "t"]),
      NotAnObject }

TextPayloads ==
    { Object([text |-> "t", accept |-> <<"Paris", "paris ">>]),
      Object([text |-> "t", accept |-> <<"Rome">>]),
      Object([text |-> "t", accept |-> <<>>]),
      Object([text |-> "t"]),
      NotAnObject }

GradeQuestions ==
    { [course_id |-> 1, qtype |-> "single", payload |-> p] : p \in SinglePayloads }
    \cup { [course_id |-> 1, qtype |-> "multiple", payload |-> p] : p \in MultiplePayloads }
    \cup { [course_id |-> 1, qtype |-> "numeric", payload |-> p] : p \in NumericPayloads }
    \cup { [course_id |-> 1, qtype |-> "text", payload |-> p] : p \in TextPayloads }

\* values[q.ID] as a form may carry it for a question of the type.
GradeVals(qtype) ==
    CASE qtype = "single" ->
            { <<>>, <<"">>, <<"x">>, <<"0">>, <<"1">>, <<"3">>, <<"01">>, <<"1", "3">> }
      [] qtype = "multiple" ->
            { <<>>, <<"x">>, <<"1">>, <<"0">>, <<"1", "3">>, <<"3", "1">>,
              <<"1", "3", "5">>, <<"1", "1", "3">>, <<"1", "x", "3">> }
      [] qtype = "numeric" ->
            { <<>>, <<"">>, <<"x">>, <<"0">>, <<"0.5">>, <<"5e-10">>, <<"1e-9">> }
      [] qtype = "text" ->
            { <<>>, <<"">>, <<" ">>, <<" PARIS">>, <<"Paris">>, <<"paris">>, <<"Rome">>,
              <<"x">> }

\* The locals of one turn of the grading loop before its switch.
GradeCalls ==
    UNION { { [op |-> "grade", pc |-> "switch", q |-> q, rawVals |-> v, isCorrect |-> Null]
              : v \in GradeVals(q.qtype) } : q \in GradeQuestions }

GradeInit ==
    /\ now = 0
    /\ users = {1}
    /\ quizzes = <<>>
    /\ attempts = <<>>
    /\ answers = <<>>
    /\ req \in [{1} -> GradeCalls]
    /\ served = 0
    /\ loginLimiter = <<>>

\* switch q.QType { ... }: isCorrect is set.
GradeSwitch ==
    \E s \in Slots :
      /\ At(s, "grade", "switch")
      /\ req' = [req EXCEPT ![s].isCorrect = Grade(req[s].q, req[s].rawVals),
                            ![s].pc = "save"]
      /\ UNCHANGED <<now, users, quizzes, attempts, answers, served, loginLimiter>>

GradeNext == GradeSwitch

GradeSpec == GradeInit /\ [][GradeNext]_vars

(* ------------------- the repository's reads alone ---------------------- *)

\* Column quizzes.rules as stored: a JSON object holding any of the four keys.
RuleKeys == {"count", "time_limit_sec", "max_attempts", "retake_cooldown_sec"}
RuleVals == {0, 1, 3}
RawRules == UNION { [K -> RuleVals] : K \in SUBSET RuleKeys }

\* json.Unmarshal(rulesRaw, &q) into the tagged struct QuizRules: a key that
\* is absent leaves its field 0.
UnmarshalRules(raw) ==
    [k \in RuleKeys |-> IF k \in DOMAIN raw THEN raw[k] ELSE 0]

\* rules.Count as PickQuestions may be handed it, and the course asked for.
PickCounts == {-1, 0, 1, 2, 3}
PickCourses == {1, 2}

\* A call of LoadQuizRules or of PickQuestions before it runs.
RepoCalls ==
    { [op |-> "rules", pc |-> "call", raw |-> raw, course |-> 0, out |-> Null]
        : raw \in RawRules }
    \cup { [op |-> "pick", pc |-> "call", raw |-> [count |-> k], course |-> c, out |-> Null]
             : k \in PickCounts, c \in PickCourses }

RepoInit ==
    /\ now = 0
    /\ users = {1}
    /\ quizzes = <<>>
    /\ attempts = <<>>
    /\ answers = <<>>
    /\ req \in [{1} -> RepoCalls]
    /\ served = 0
    /\ loginLimiter = <<>>

\* Repo.LoadQuizRules on a row holding raw.
RepoLoadQuizRules ==
    \E s \in Slots :
      /\ At(s, "rules", "call")
      /\ req' = [req EXCEPT ![s].out = Some(LoadQuizRules(UnmarshalRules(req[s].raw))),
                            ![s].pc = "ret"]
      /\ UNCHANGED <<now, users, quizzes, attempts, answers, served, loginLimiter>>

\* Repo.PickQuestions(courseID, rules): any of the samples.
RepoPickQuestions ==
    \E s \in Slots :
      /\ At(s, "pick", "call")
      /\ \E S \in PickQuestions(req[s].course, req[s].raw) :
           req' = [req EXCEPT ![s].out = Some(S), ![s].pc = "ret"]
      /\ UNCHANGED <<now, users, quizzes, attempts, answers, served, loginLimiter>>

RepoNext == RepoLoadQuizRules \/ RepoPickQuestions

RepoSpec == RepoInit /\ [][RepoNext]_vars

(* ------------------------------ properties ----------------------------- *)

\* The attempts of user uid on quiz qid.
AttemptsOf(uid, qid) ==
    { i \in DOMAIN attempts : attempts[i].user_id = uid /\ attempts[i].quiz_id = qid }

IsOpen(a) == IsNull(a.finished_at) /\ IsNull(a.total_score) /\ IsNull(a.duration_sec)

\* Slot s holds an answered start request on an existing quiz, none of whose
\* storage calls failed.
StartAnswered(s) ==
    /\ req[s].op = "start"
    /\ req[s].pc = "done"
    /\ req[s].fault = {}
    /\ req[s].quiz_id \in DOMAIN quizzes

\* C1: on a quiz with max_attempts = N > 0 and no cooldown, a start is either
\* allowed, and then it created one open attempt of (user, quiz) that is at most
\* the Nth, or it is refused with the attempt-limit reason, and then (user,
\* quiz) already holds N attempts or more: the first N starts are allowed and
\* every later one is refused, whatever became of the earlier attempts.
C1_AttemptLimit ==
    \A s \in Slots :
      LET r == req[s]
          rules == quizzes[r.quiz_id]
          mine == AttemptsOf(r.uid, r.quiz_id)
      IN  (StartAnswered(s) /\ rules.max_attempts > 0 /\ rules.retake_cooldown_sec = 0)
          => \/ /\ r.resp = "quiz"
                /\ r.attempt_id = Len(attempts)
                /\ r.attempt_id \in mine
                /\ IsOpen(attempts[r.attempt_id])
                /\ Cardinality(mine) <= rules.max_attempts
             \/ /\ r.resp = "limit"
                /\ Cardinality(mine) >= rules.max_attempts

\* C1 witness: a start refused at the limit while the attempt that used it up
\* is finished.
C1_Witness ==
    \E s \in Slots :
      /\ StartAnswered(s)
      /\ quizzes[req[s].quiz_id].retake_cooldown_sec = 0
      /\ req[s].resp = "limit"
      /\ \E i \in AttemptsOf(req[s].uid, req[s].quiz_id) : ~IsNull(attempts[i].finished_at)

\* C2: on a quiz with retake_cooldown_sec = C > 0, a start that reaches the
\* cooldown gate (the attempt limit not reached) at time now is refused with
\* the cooldown reason iff some attempt of (user, quiz) has
\* started_at >= now - C; otherwise it goes on to create the attempt.
C2_Cooldown ==
    [][ \A s \in Slots :
          LET r == req[s]
              C == Val(r.rules).retake_cooldown_sec
              active == \E i \in AttemptsOf(r.uid, r.quiz_id) :
                           attempts[i].started_at >= now - C
          IN  ( /\ r.op = "start" /\ r.pc = "gate_cooldown"
                /\ req'[s] # r
                /\ req'[s].fault = {}
                /\ C > 0 )
              => /\ active => req'[s].pc = "done" /\ req'[s].resp = "cooldown"
                 /\ ~active => req'[s].pc = "create" /\ req'[s].resp = "none"
      ]_vars

\* C2 witness: a start allowed on a quiz with a cooldown although (user, quiz)
\* has an earlier attempt: the cooldown has run out.
C2_Witness ==
    \E s \in Slots :
      /\ StartAnswered(s)
      /\ quizzes[req[s].quiz_id].retake_cooldown_sec > 0
      /\ req[s].resp = "quiz"
      /\ \E i \in AttemptsOf(req[s].uid, req[s].quiz_id) :
           /\ i # req[s].attempt_id
           /\ attempts[i].started_at < Val(req[s].since)

\* C3: on a quiz with both max_attempts = N > 0 and a cooldown, a start is
\* refused for one reason only, and the cooldown reason is given only while the
\* attempt limit is not reached: with N attempts or more on record the answer
\* is the attempt-limit reason.
C3_LimitBeforeCooldown ==
    \A s \in Slots :
      LET r == req[s]
          rules == quizzes[r.quiz_id]
          n == Cardinality(AttemptsOf(r.uid, r.quiz_id))
      IN  (StartAnswered(s) /\ rules.max_attempts > 0 /\ rules.retake_cooldown_sec > 0)
          => /\ r.resp \in {"quiz", "limit", "cooldown"}
             /\ r.resp = "cooldown" => n < rules.max_attempts
             /\ r.resp = "quiz" => n <= rules.max_attempts
             /\ r.resp = "limit" => n >= rules.max_attempts

\* C3 witness: the attempt-limit reason is given while the cooldown is active
\* as well.
C3_Witness ==
    \E s \in Slots :
      /\ StartAnswered(s)
      /\ quizzes[req[s].quiz_id].max_attempts > 0
      /\ quizzes[req[s].quiz_id].retake_cooldown_sec > 0
      /\ req[s].resp = "limit"
      /\ \E i \in AttemptsOf(req[s].uid, req[s].quiz_id) :
           attempts[i].started_at >= now - quizzes[req[s].quiz_id].retake_cooldown_sec

\* C4: every step that leaves a start request before the cooldown gate or
\* refused by a gate (these are all the steps of a refused start) leaves the
\* attempts and the answers as they were.
C4_DeniedStartWritesNothing ==
    [][ \A s \in Slots :
          ( /\ req'[s].op = "start"
            /\ \/ req'[s].pc = "gate_cooldown"
               \/ req'[s].resp \in {"limit", "cooldown"} )
          => attempts' = attempts /\ answers' = answers
      ]_vars

\* C4 witness: a refused start with an attempt and an answer on record.
C4_Witness ==
    \E s \in Slots :
      /\ req[s].op = "start"
      /\ req[s].resp = "cooldown"
      /\ Len(attempts) > 0
      /\ Len(answers) > 0

\* The four fields a submission writes.
Terminal(a) == <<a.finished_at, a.total_score, a.duration_sec, a.overtime>>

\* C5 (as claimed): once a submission has written the terminal fields of an
\* attempt (finished_at and duration_sec are set), no later step changes
\* total_score, finished_at, duration_sec or overtime.
C5_FinishedOnce ==
    [][ \A i \in DOMAIN attempts :
          (~IsNull(attempts[i].finished_at) /\ ~IsNull(attempts[i].duration_sec))
          => Terminal(attempts'[i]) = Terminal(attempts[i])
      ]_vars

\* C6: an attempt is never reopened: a row of attempts stays, and once its
\* finished_at (its total_score) is set no step makes it absent again.
C6_NeverReopened ==
    [][ \A i \in DOMAIN attempts :
          /\ i \in DOMAIN attempts'
          /\ ~IsNull(attempts[i].finished_at) => ~IsNull(attempts'[i].finished_at)
          /\ ~IsNull(attempts[i].total_score) => ~IsNull(attempts'[i].total_score)
      ]_vars

\* C6 witness: an attempt is still finished after a second submission was
\* made for it (one of its questions has two answers).
C6_Witness ==
    \E s \in Slots, i \in DOMAIN attempts :
      /\ ~IsNull(attempts[i].finished_at)
      /\ ~IsNull(attempts[i].total_score)
      /\ req[s].op = "finish" /\ req[s].pc = "done" /\ req[s].attempt_id = i
      /\ \E j, k \in DOMAIN answers :
           /\ j < k
           /\ answers[j].attempt_id = i /\ answers[k].attempt_id = i
           /\ answers[j].question_id = answers[k].question_id

\* C7 (as claimed): in every state an attempt has finished_at, total_score and
\* duration_sec all absent or all present.
C7_TerminalFieldsTogether ==
    \A i \in DOMAIN attempts :
      \/ IsOpen(attempts[i])
      \/ /\ ~IsNull(attempts[i].finished_at)
         /\ ~IsNull(attempts[i].total_score)
         /\ ~IsNull(attempts[i].duration_sec)

\* C8: a submission whose SaveAnswer fails is answered with an error at once,
\* and no step of it, from its arrival through the grading loop to the failure,
\* changes the attempts table: the attempt keeps the state it had, open if it
\* was open, however many answers were saved before.
C8_FailedSaveCommitsNothing ==
    [][ \A s \in Slots :
          /\ (req'[s].op = "finish" /\ req'[s].pc = "grade") => attempts' = attempts
          /\ (req'[s].op = "finish" /\ "save" \in req'[s].fault)
             => /\ req'[s].pc = "done"
                /\ req'[s].resp = "error"
                /\ attempts' = attempts
      ]_vars

\* C8 witness: a submission failed at a SaveAnswer after another answer of
\* the same attempt was saved, and the attempt is open.
C8_Witness ==
    \E s \in Slots :
      /\ req[s].op = "finish" /\ req[s].pc = "done"
      /\ "save" \in req[s].fault
      /\ req[s].attempt_id \in DOMAIN attempts
      /\ IsOpen(attempts[req[s].attempt_id])
      /\ \E j \in DOMAIN answers : answers[j].attempt_id = req[s].attempt_id

\* C9 (as claimed): a submission for an attempt on record, one of whose
\* terminal-state writes failed, is answered with an error and the attempt does
\* not show as finished.
C9_FailedTerminalWrite ==
    \A s \in Slots :
      ( /\ req[s].op = "finish" /\ req[s].pc = "done"
        /\ req[s].attempt_id \in DOMAIN attempts
        /\ ("result" \in req[s].fault \/ "timing" \in req[s].fault) )
      => /\ req[s].resp = "error"
         /\ IsNull(attempts[req[s].attempt_id].finished_at)

\* C10 (as claimed): an attempt holds at most one answer per question.
C10_OneAnswerPerQuestion ==
    \A j, k \in DOMAIN answers :
      ( /\ answers[j].attempt_id = answers[k].attempt_id
        /\ answers[j].question_id = answers[k].question_id )
      => j = k

\* The answers saved by the submission in slot s so far: the last graded rows
\* of table answers (one request is served at a time).
SavedBy(s) == { i \in DOMAIN answers : i > Len(answers) - req[s].graded }

\* C11: right after a submission wrote its score, total_score is the number
\* of the questions this submission graded correct (1 each, nothing else
\* counts), hence between 0 and the number of questions it graded.
C11_ScoreCountsCorrect ==
    \A s \in Slots :
      (At(s, "finish", "timing") /\ req[s].attempt_id \in DOMAIN attempts)
      => LET right == { i \in SavedBy(s) : answers[i].is_correct = Some(TRUE) }
             score == attempts[req[s].attempt_id].total_score
         IN  /\ \A i \in SavedBy(s) : answers[i].attempt_id = req[s].attempt_id
             /\ Cardinality(SavedBy(s)) = req[s].graded
             /\ score = Some(Cardinality(right))
             /\ 0 <= Val(score) /\ Val(score) <= req[s].graded

\* C11 witness: a submission graded two questions, one right and one wrong,
\* and wrote the score 1.
C11_Witness ==
    \E s \in Slots :
      /\ At(s, "finish", "timing")
      /\ req[s].attempt_id \in DOMAIN attempts
      /\ req[s].graded = 2
      /\ \E i, j \in SavedBy(s) : /\ answers[i].is_correct = Some(TRUE)
                                  /\ answers[j].is_correct = Some(FALSE)
      /\ attempts[req[s].attempt_id].total_score = Some(1)

\* C12: the timing write of a submission stores the reported elapsed seconds
\* unchanged as duration_sec, and overtime = TRUE exactly when the rules the
\* submission loaded have time_limit_sec > 0 and the elapsed seconds are
\* strictly greater than it (no rules loaded: never overtime).
C12_Overtime ==
    [][ \A s \in Slots :
          ( /\ At(s, "finish", "timing")
            /\ req'[s].pc = "done"
            /\ "timing" \notin req'[s].fault
            /\ req[s].attempt_id \in DOMAIN attempts )
          => LET limit == IF IsNull(req[s].rules) THEN 0
                          ELSE Val(req[s].rules).time_limit_sec
                 a == attempts'[req[s].attempt_id]
             IN  /\ ~IsNull(req'[s].dur)
                 /\ a.duration_sec = req'[s].dur
                 /\ a.overtime = (limit > 0 /\ Val(req'[s].dur) > limit) ]_vars

\* C12 witness: a submission that reported 2 seconds against a limit of 1 is
\* answered and its attempt is stored with duration 2 and overtime.
C12_Witness ==
    \E s \in Slots :
      /\ req[s].op = "finish" /\ req[s].pc = "done" /\ req[s].resp = "result"
      /\ "timing" \notin req[s].fault
      /\ req[s].attempt_id \in DOMAIN attempts
      /\ req[s].dur = Some(2)
      /\ attempts[req[s].attempt_id].duration_sec = Some(2)
      /\ attempts[req[s].attempt_id].overtime
      /\ quizzes[attempts[req[s].attempt_id].quiz_id].time_limit_sec = 1

(* ------------------- properties of the grading switch ------------------ *)

\* A turn of the grading loop whose switch has run.
Graded(s) == req[s].op = "grade" /\ req[s].pc = "save"

\* The member a question's payload stores under key, when it is an object
\* holding one.
HasMember(q, key) == q.payload.object /\ key \in DOMAIN q.payload.members

\* The first submitted value and whether it reads as a decimal integer.
FirstVal(s) == IF req[s].rawVals = <<>> THEN "" ELSE req[s].rawVals[1]
IsIndex(sv) == sv \in {"0", "1", "01", "3", "5"}
IndexOf(sv) == CASE sv = "0" -> 0 [] sv = "1" -> 1 [] sv = "01" -> 1
                 [] sv = "3" -> 3 [] sv = "5" -> 5

\* C13: a single-choice question whose submitted value reads as an index is
\* graded correct iff that index is the first element of the stored correct
\* list; with an empty stored list it is graded incorrect whatever was
\* submitted.
C13_SingleChoice ==
    \A s \in Slots :
      (Graded(s) /\ req[s].q.qtype = "single" /\ HasMember(req[s].q, "correct"))
      => LET correct == req[s].q.payload.members.correct IN
         /\ IsIndex(FirstVal(s))
            => req[s].isCorrect =
                 Some(correct # <<>> /\ IndexOf(FirstVal(s)) = correct[1])
         /\ correct = <<>> => req[s].isCorrect = Some(FALSE)

\* C13 witness: index 3 submitted against the correct list <<3, 1>> was graded
\* correct.
C13_Witness ==
    \E s \in Slots :
      /\ Graded(s) /\ req[s].q.qtype = "single"
      /\ HasMember(req[s].q, "correct")
      /\ req[s].q.payload.members.correct = <<3, 1>>
      /\ req[s].rawVals = <<"3">>
      /\ req[s].isCorrect = Some(TRUE)

\* The indices among the submitted values.
SubmittedSet(s) ==
    { IndexOf(req[s].rawVals[i]) :
        i \in { j \in DOMAIN req[s].rawVals : IsIndex(req[s].rawVals[j]) } }

\* C14: a multiple-choice question is graded correct iff the set of the
\* submitted values that read as indices is the stored set of correct indices,
\* whatever the order and the repetitions.
C14_MultipleChoice ==
    \A s \in Slots :
      (Graded(s) /\ req[s].q.qtype = "multiple" /\ HasMember(req[s].q, "correct"))
      => LET correct == req[s].q.payload.members.correct
             correctSet == { correct[i] : i \in DOMAIN correct }
         IN  req[s].isCorrect = Some(SubmittedSet(s) = correctSet)

\* C14 witness: 1, 3 submitted against the correct list <<3, 1>> was graded
\* correct.
C14_Witness ==
    \E s \in Slots :
      /\ Graded(s) /\ req[s].q.qtype = "multiple"
      /\ HasMember(req[s].q, "correct")
      /\ req[s].q.payload.members.correct = <<3, 1>>
      /\ req[s].rawVals = <<"1", "3">>
      /\ req[s].isCorrect = Some(TRUE)

\* The value a submitted token denotes, in steps of 5e-10.
NumberOf(sv) == CASE sv = "0" -> 0 [] sv = "0.5" -> Half
                  [] sv = "5e-10" -> 1 [] sv = "1e-9" -> 2
IsNumber(sv) == sv \in {"0", "0.5", "5e-10", "1e-9"}

\* C15 (as claimed): a numeric question whose payload stores correct_value is
\* graded correct iff the submitted number is less than 1e-9 away from it.
C15_Numeric ==
    \A s \in Slots :
      ( /\ Graded(s) /\ req[s].q.qtype = "numeric"
        /\ HasMember(req[s].q, "correct_value")
        /\ IsNumber(FirstVal(s)) )
      => LET d == NumberOf(FirstVal(s)) - req[s].q.payload.members.correct_value
         IN  req[s].isCorrect = Some(-Tolerance < d /\ d < Tolerance)

\* Trimmed and case-folded.
Folded(sv) == ToLower(TrimSpace(sv))

\* C16: a text question is graded correct iff the submitted string, trimmed
\* and case-folded, is one of the stored accept entries trimmed and
\* case-folded; never with an empty accept list.
C16_Text ==
    \A s \in Slots :
      (Graded(s) /\ req[s].q.qtype = "text" /\ HasMember(req[s].q, "accept"))
      => LET accept == req[s].q.payload.members.accept
         IN  req[s].isCorrect =
               Some(\E i \in DOMAIN accept : Folded(accept[i]) = Folded(FirstVal(s)))

\* C16 witness: " PARIS" submitted against accept <<"Paris", "paris ">> was
\* graded correct.
C16_Witness ==
    \E s \in Slots :
      /\ Graded(s) /\ req[s].q.qtype = "text"
      /\ HasMember(req[s].q, "accept")
      /\ req[s].q.payload.members.accept = <<"Paris", "paris ">>
      /\ req[s].rawVals = <<" PARIS">>
      /\ req[s].isCorrect = Some(TRUE)

\* The key of the correct answer in a payload of the type.
AnswerKey(qtype) ==
    CASE qtype = "single" -> "correct" [] qtype = "multiple" -> "correct"
      [] qtype = "numeric" -> "correct_value" [] qtype = "text" -> "accept"

\* C17 (as claimed): a single-choice or numeric question with a payload of
\* its type's shape whose submitted value is empty or does not parse is graded
\* incorrect, whatever is stored as correct.
C17_UnparseableIsIncorrect ==
    \A s \in Slots :
      ( /\ Graded(s)
        /\ HasMember(req[s].q, AnswerKey(req[s].q.qtype))
        /\ \/ req[s].q.qtype = "single" /\ ~IsIndex(FirstVal(s))
           \/ req[s].q.qtype = "numeric" /\ ~IsNumber(FirstVal(s)) )
      => req[s].isCorrect = Some(FALSE)

\* C18 (as claimed): a question whose payload is not an object or lacks the
\* correct-answer member of its type is graded incorrect for every
\* submission.
C18_MalformedIsIncorrect ==
    \A s \in Slots :
      (Graded(s) /\ ~HasMember(req[s].q, AnswerKey(req[s].q.qtype)))
      => req[s].isCorrect = Some(FALSE)

(* ------------------ properties of the repository's reads --------------- *)

Returned(s, op) == req[s].op = op /\ req[s].pc = "ret"

\* The questions table holds for a course.
InCourse(c) == { q \in DOMAIN Questions : Questions[q].course_id = c }

\* C19: sampling with a requested count K > 0 on a course holding M questions
\* returns min(K, M) questions (a set of ids, hence pairwise distinct), all of
\* the requested course.
C19_SampleSize ==
    \A s \in Slots :
      (Returned(s, "pick") /\ req[s].raw.count > 0)
      => LET K == req[s].raw.count
             M == Cardinality(InCourse(req[s].course))
             S == Val(req[s].out)
         IN  /\ Cardinality(S) = IF K < M THEN K ELSE M
             /\ S \subseteq InCourse(req[s].course)

\* C19 witness: 3 questions were asked of a course holding 2 and both came
\* back.
C19_Witness ==
    \E s \in Slots :
      /\ Returned(s, "pick")
      /\ req[s].raw.count = 3
      /\ Cardinality(InCourse(req[s].course)) = 2
      /\ Val(req[s].out) = InCourse(req[s].course)

\* C20: loaded rules never have count 0: an absent or zero count is loaded as
\* 10, a positive one as stored, and each other field is the stored value, 0
\* when the key is absent.
C20_DefaultCount ==
    \A s \in Slots :
      Returned(s, "rules")
      => LET raw == req[s].raw
             out == Val(req[s].out)
         IN  /\ out.count # 0
             /\ ("count" \notin DOMAIN raw \/ raw["count"] = 0) => out.count = 10
             /\ ("count" \in DOMAIN raw /\ raw["count"] > 0) => out.count = raw["count"]
             /\ \A k \in RuleKeys \ {"count"} :
                  out[k] = IF k \in DOMAIN raw THEN raw[k] ELSE 0

\* C20 witness: rules stored without a count and without a time limit were
\* loaded with count 10 and time limit 0.
C20_Witness ==
    \E s \in Slots :
      /\ Returned(s, "rules")
      /\ "count" \notin DOMAIN req[s].raw
      /\ "time_limit_sec" \notin DOMAIN req[s].raw
      /\ "max_attempts" \in DOMAIN req[s].raw
      /\ Val(req[s].out).count = 10
      /\ Val(req[s].out).time_limit_sec = 0

(* ---------------- two start requests in flight at once ----------------- *)

\* net/http serves every connection on its own goroutine, so two calls of
\* handleQuizStart run side by side; each repository call is one statement
\* on the shared database, and nothing (no transaction, no lock) spans the
\* count reads and the INSERT of one request.
ConcInit ==
    /\ now = 0
    /\ users = {1}
    /\ quizzes \in [{1} -> RuleChoices]
    /\ attempts = <<>>
    /\ answers = <<>>
    /\ req = [s \in {1, 2} |-> IdleReq]
    /\ served = 0
    /\ loginLimiter = <<>>

ConcNext ==
    \/ Tick
    \/ QuizStart
    \/ QuizStartCooldown
    \/ QuizStartCreate

ConcSpec == ConcInit /\ [][ConcNext]_vars

(* ---------------- the grading loop over any fetched rows --------------- *)

\* QuestionRow.QType is a Go string and `switch q.QType` has no default
\* branch; the comparison is exact, so "Single" is none of the four cases.
\* (The CHECK on questions.qtype keeps such rows out of the table as
\* migrated; the loop is modelled for whatever the fetch hands it.)
OtherTypes == {"essay", "Single"}

LoopQuestions ==
    { Questions[i] : i \in QuestionIds }
    \cup { [course_id |-> 1, qtype |-> t, payload |-> Object([text |-> "t"])]
           : t \in OtherTypes }

\* One fetched question with the values the form carries for it.
LoopTurns == { [q |-> q, rawVals |-> v] : q \in LoopQuestions, v \in ValLists }

MaxFetched == 2

\* The locals of handleQuizFinish on entering the loop: qs[i] has id i.
LoopCalls ==
    { [op |-> "loop", pc |-> "switch", attempt_id |-> 1, todo |-> t,
       graded |-> 0, correctCount |-> 0, isCorrect |-> Null]
      : t \in UNION { [1..n -> LoopTurns] : n \in 1..MaxFetched } }

LoopInit ==
    /\ now = 0
    /\ users = {1}
    /\ quizzes = <<>>
    /\ attempts = <<NewAttempt(1, 1, 0)>>
    /\ answers = <<>>
    /\ req \in [{1} -> LoopCalls]
    /\ served = 0
    /\ loginLimiter = <<>>

\* var isCorrect *bool; switch q.QType { ... }: each case sets isCorrect and
\* counts a correct answer; no case, no assignment.
LoopSwitch ==
    \E s \in Slots :
      /\ At(s, "loop", "switch")
      /\ LET r == req[s]
             isCorrect == Grade(Head(r.todo).q, Head(r.todo).rawVals)
             n == IF isCorrect = Some(TRUE) THEN r.correctCount + 1 ELSE r.correctCount
         IN  Goto(s, [r EXCEPT !.isCorrect = isCorrect, !.correctCount = n,
                               !.pc = "save"])
      /\ UNCHANGED <<now, users, quizzes, attempts, answers, served, loginLimiter>>

\* if err := s.Repo.SaveAnswer(...); err != nil { http.Error(...); return }
\* and then the next turn of the loop, or the code after it.
LoopSave ==
    \E s \in Slots :
      /\ At(s, "loop", "save")
      /\ LET r == req[s] IN
         \E ok \in BOOLEAN :
           IF ok
           THEN /\ answers' = Append(answers,
                                NewAnswer(r.attempt_id, r.graded + 1, r.isCorrect))
                /\ Goto(s, [r EXCEPT !.todo = Tail(@), !.graded = @ + 1,
                                     !.isCorrect = Null,
                                     !.pc = IF Tail(r.todo) = <<>> THEN "result"
                                            ELSE "switch"])
           ELSE /\ Goto(s, [r EXCEPT !.pc = "error"])
                /\ UNCHANGED answers
      /\ UNCHANGED <<now, users, quizzes, attempts, served, loginLimiter>>

LoopNext ==
    \/ LoopSwitch
    \/ LoopSave

LoopSpec == LoopInit /\ [][LoopNext]_vars

(* ------------------------------ handleLogin ---------------------------- *)

\* Time in this part is counted in minutes; the clock moves TimeStep minutes
\* at a time up to MaxLoginTime.
TimeStep == 5
MaxLoginTime == 35

\* 15*time.Minute
LoginWindow == 15

\* if b.count >= 5
LoginLimit == 5

\* clientIP(r): the addresses the requests come from.
IPs == {"10.0.0.1", "10.0.0.2"}

\* type loginBucket struct { count int; start time.Time }.  failed is
\* history: the wrong-password checks made since count was last set to 0.
NewBucket(t) == [count |-> 0, start |-> t, failed |-> 0]

\* The locals of one POST /login: ip, now := time.Now(), the password as the
\* form carries it (right or wrong for the account), cnt (the value b.count++
\* read).  seen (the bucket as LoadOrStore returned it) and checked (the
\* credentials were looked up) are history.
IdleLogin ==
    [op |-> "none", pc |-> "idle", ip |-> "", now |-> 0, right |-> FALSE,
     cnt |-> 0, seen |-> NewBucket(0), checked |-> FALSE, resp |-> "none"]

LoginReply(s, r, resp) == req' = [req EXCEPT ![s] = [r EXCEPT !.pc = "done", !.resp = resp]]

\* ip := clientIP(r); now := time.Now()
\* val, _ := s.loginLimiter.LoadOrStore(ip, &loginBucket{count: 0, start: now})
LoginLoadOrStore(s, ip, right) ==
    /\ Free(s)
    /\ LET m == IF ip \in DOMAIN loginLimiter THEN loginLimiter
                ELSE [k \in DOMAIN loginLimiter \cup {ip} |->
                        IF k = ip THEN NewBucket(now) ELSE loginLimiter[k]]
       IN  /\ loginLimiter' = m
           /\ Goto(s, [IdleLogin EXCEPT !.op = "login", !.pc = "window", !.ip = ip,
                                        !.now = now, !.right = right, !.seen = m[ip]])
    /\ UNCHANGED <<now, users, quizzes, attempts, answers>>

\* Mutant: the window ends when 15 minutes have passed, not after.
LoginWindowInclusive(s) ==
    /\ At(s, "login", "window")
    /\ LET r == req[s] IN
       /\ loginLimiter' = IF r.now - loginLimiter[r.ip].start >= LoginWindow
                          THEN [loginLimiter EXCEPT ![r.ip] = NewBucket(r.now)]
                          ELSE loginLimiter
       /\ Goto(s, [r EXCEPT !.pc = "limit"])
    /\ UNCHANGED <<now, users, quizzes, attempts, answers, served>>

\* if now.Sub(b.start) > 15*time.Minute { b.start = now; b.count = 0 }
LoginWindowCheck(s) ==
    /\ At(s, "login", "window")
    /\ LET r == req[s] IN
       /\ loginLimiter' = IF r.now - loginLimiter[r.ip].start > LoginWindow
                          THEN [loginLimiter EXCEPT ![r.ip] = NewBucket(r.now)]
                          ELSE loginLimiter
       /\ Goto(s, [r EXCEPT !.pc = "limit"])
    /\ UNCHANGED <<now, users, quizzes, attempts, answers, served>>

\* if b.count >= 5 { render the "too many attempts" page; return }
LoginLimitCheck(s) ==
    /\ At(s, "login", "limit")
    /\ LET r == req[s] IN
       IF loginLimiter[r.ip].count >= LoginLimit
       THEN LoginReply(s, r, "limited")
       ELSE Goto(s, [r EXCEPT !.pc = "credentials"])
    /\ UNCHANGED <<now, users, quizzes, attempts, answers, served, loginLimiter>>

\* u, err := s.Repo.FindUserByEmail(...);
\* if err != nil || !util.CheckPassword(u.PassHash, pw) { b.count++ ... }
\* b.count = 0; b.start = now; a.SetSession(w, u.ID); redirect
\* A failed lookup counts as a wrong password.
LoginCredentials(s) ==
    /\ At(s, "login", "credentials")
    /\ LET r == [req[s] EXCEPT !.checked = TRUE] IN
       \E found \in BOOLEAN :
         IF found /\ r.right
         THEN /\ loginLimiter' = [loginLimiter EXCEPT ![r.ip] = NewBucket(r.now)]
              /\ LoginReply(s, r, "session")
         ELSE /\ loginLimiter' = [loginLimiter EXCEPT ![r.ip].failed = @ + 1]
              /\ Goto(s, [r EXCEPT !.pc = "incr_read", !.right = FALSE])
    /\ UNCHANGED <<now, users, quizzes, attempts, answers, served>>

\* b.count++, the read: the field is a plain int behind a shared pointer.
LoginIncrRead(s) ==
    /\ At(s, "login", "incr_read")
    /\ Goto(s, [req[s] EXCEPT !.cnt = loginLimiter[req[s].ip].count,
                              !.pc = "incr_write"])
    /\ UNCHANGED <<now, users, quizzes, attempts, answers, served, loginLimiter>>

\* b.count++, the write; then the "wrong login or password" page.
LoginIncrWrite(s) ==
    /\ At(s, "login", "incr_write")
    /\ loginLimiter' = [loginLimiter EXCEPT ![req[s].ip].count = req[s].cnt + 1]
    /\ LoginReply(s, req[s], "invalid")
    /\ UNCHANGED <<now, users, quizzes, attempts, answers, served>>

LoginTick ==
    /\ now + TimeStep <= MaxLoginTime
    /\ now' = now + TimeStep
    /\ UNCHANGED <<users, quizzes, attempts, answers, req, served, loginLimiter>>

LoginPost ==
    /\ \E s \in Slots, ip \in IPs, right \in BOOLEAN : LoginLoadOrStore(s, ip, right)
    /\ UNCHANGED served

LoginWindowStep == \E s \in Slots : LoginWindowCheck(s)

LoginLimitStep == \E s \in Slots : LoginLimitCheck(s)

LoginCredentialsStep == \E s \in Slots : LoginCredentials(s)

LoginIncrReadStep == \E s \in Slots : LoginIncrRead(s)

LoginIncrWriteStep == \E s \in Slots : LoginIncrWrite(s)

LoginNext ==
    \/ LoginTick
    \/ LoginPost
    \/ LoginWindowStep
    \/ LoginLimitStep
    \/ LoginCredentialsStep
    \/ LoginIncrReadStep
    \/ LoginIncrWriteStep

\* One POST /login at a time.
LoginInit ==
    /\ now = 0
    /\ users = {1}
    /\ quizzes = <<>>
    /\ attempts = <<>>
    /\ answers = <<>>
    /\ req = [s \in {1} |-> IdleLogin]
    /\ served = 0
    /\ loginLimiter = <<>>

LoginSpec == LoginInit /\ [][LoginNext]_vars

\* Two POST /login in flight: each runs on its own goroutine, and the bucket
\* they share is read and written without a lock.
LoginConcInit ==
    /\ now = 0
    /\ users = {1}
    /\ quizzes = <<>>
    /\ attempts = <<>>
    /\ answers = <<>>
    /\ req = [s \in {1, 2} |-> IdleLogin]
    /\ served = 0
    /\ loginLimiter = <<>>

MaxLogins == 6

\* Both requests come from the same address; MaxLogins requests are served.
LoginConcPost ==
    /\ served < MaxLogins
    /\ served' = served + 1
    /\ \E s \in Slots, right \in BOOLEAN : LoginLoadOrStore(s, "10.0.0.1", right)

\* The clock passes the end of the first window once.
LoginConcTick ==
    /\ now = 0
    /\ now' = LoginWindow + TimeStep
    /\ UNCHANGED <<users, quizzes, attempts, answers, req, served, loginLimiter>>

LoginConcNext ==
    \/ LoginConcTick
    \/ LoginConcPost
    \/ LoginWindowStep
    \/ LoginLimitStep
    \/ LoginCredentialsStep
    \/ LoginIncrReadStep
    \/ LoginIncrWriteStep

LoginConcSpec == LoginConcInit /\ [][LoginConcNext]_vars

(* ---------------- properties over two users and two quizzes ------------ *)

\* The rows of table answers that belong to attempt aid, in order.
AnswersOf(tbl, aid) == SelectSeq(tbl, LAMBDA row : row.attempt_id = aid)

\* C21: every step of a submission for attempt A leaves each other attempt's
\* row and answers as they were and creates no attempt; every step of a start
\* leaves every attempt on record and every answer as they were; and a start
\* none of whose storage calls failed is decided on the attempts of its own
\* (user, quiz) alone: refused at the limit only with max_attempts of them on
\* record, refused for cooldown only with one of them inside the window,
\* allowed only with fewer than max_attempts of them.
C21_Independent ==
    [][ \A s \in Slots :
          LET r == req'[s]
              own == AttemptsOf(r.uid, r.quiz_id)
          IN  /\ r.op = "finish"
                 => /\ Len(attempts') = Len(attempts)
                    /\ \A i \in DOMAIN attempts :
                         i # r.attempt_id
                         => /\ attempts'[i] = attempts[i]
                            /\ AnswersOf(answers', i) = AnswersOf(answers, i)
              /\ r.op = "start"
                 => /\ answers' = answers
                    /\ \A i \in DOMAIN attempts : attempts'[i] = attempts[i]
              /\ (r.op = "start" /\ r.pc = "done" /\ r.fault = {}
                    /\ r.quiz_id \in DOMAIN quizzes /\ req[s] # r)
                 => LET rules == quizzes[r.quiz_id] IN
                    /\ r.resp \in {"quiz", "limit", "cooldown"}
                    /\ r.resp = "limit"
                       => rules.max_attempts > 0 /\ Cardinality(own) >= rules.max_attempts
                    /\ r.resp = "cooldown"
                       => \E i \in own : attempts[i].started_at >= Val(r.since)
                    /\ (r.resp = "quiz" /\ rules.max_attempts > 0)
                       => Cardinality(own) < rules.max_attempts
      ]_vars

\* C21 witness: on a quiz limited to one attempt, a user started and
\* submitted an attempt while the other user's attempt on the same quiz is on
\* record, open and without answers.
C21_Witness ==
    \E s \in Slots :
      /\ req[s].op = "finish" /\ req[s].pc = "done" /\ req[s].resp = "result"
      /\ req[s].attempt_id = 2
      /\ Len(attempts) = 2
      /\ attempts[1].user_id # attempts[2].user_id
      /\ attempts[1].quiz_id = attempts[2].quiz_id
      /\ quizzes[attempts[2].quiz_id].max_attempts = 1
      /\ ~IsNull(attempts[2].finished_at)
      /\ IsOpen(attempts[1])
      /\ AnswersOf(answers, 1) = <<>>
      /\ AnswersOf(answers, 2) # <<>>

\* C28 (as claimed): no step of a submission sent by user u changes the row
\* or the answers of an attempt whose user_id is not u.
C28_OwnAttemptOnly ==
    [][ \A s \in Slots :
          \A i \in DOMAIN attempts :
            (req'[s].op = "finish" /\ attempts[i].user_id # req'[s].uid)
            => /\ attempts'[i] = attempts[i]
               /\ AnswersOf(answers', i) = AnswersOf(answers, i)
      ]_vars

(* ---------------- failed reads of the attempt history ------------------- *)

\* C22 (as claimed): a start whose read of the total-attempts count or of
\* the attempts-since count failed is answered with an error, and no attempt
\* is created for it.
C22_HistoryReadFailurePropagated ==
    \A s \in Slots :
      (req[s].op = "start" /\ req[s].pc = "done"
         /\ req[s].fault \cap {"total", "since"} # {})
      => req[s].resp = "error" /\ req[s].attempt_id = 0

(* ---------------- stored result against the stored answers -------------- *)

\* No submission for attempt aid is in progress.
Settled(aid) ==
    \A s \in Slots :
      (req[s].op = "finish" /\ req[s].attempt_id = aid) => req[s].pc = "done"

\* The number of answer rows of attempt aid stored as correct.
CorrectAnswers(aid) ==
    Cardinality({ j \in DOMAIN answers : /\ answers[j].attempt_id = aid
                                         /\ answers[j].is_correct = Some(TRUE) })

\* C25 (as claimed): whenever no submission for it is in progress, the stored
\* total_score of a finished attempt equals the number of its answer rows
\* with is_correct = true.
C25_ScoreMatchesAnswers ==
    \A i \in DOMAIN attempts :
      (Settled(i) /\ ~IsNull(attempts[i].finished_at))
      => attempts[i].total_score = Some(CorrectAnswers(i))

\* C26 (as claimed): for every finished attempt with a stored duration, the
\* stored overtime flag is true exactly when the quiz the attempt was created
\* for has time_limit_sec > 0 and the stored duration exceeds it.
C26_OvertimeOfOwnQuiz ==
    \A i \in DOMAIN attempts :
      (Settled(i) /\ ~IsNull(attempts[i].finished_at)
         /\ ~IsNull(attempts[i].duration_sec))
      => LET limit == LoadQuizRules(quizzes[attempts[i].quiz_id]).time_limit_sec
         IN  attempts[i].overtime
               = (limit > 0 /\ Val(attempts[i].duration_sec) > limit)

\* C27 (as claimed): a submission for the attempt that the start just answered
\* on the same connection grades only questions that start presented.
C27_OnlyPresentedQuestions ==
    [][ \A s \in Slots :
          ( /\ req[s].op = "start" /\ req[s].pc = "done" /\ req[s].resp = "quiz"
            /\ req'[s].op = "finish" /\ req'[s].pc = "grade"
            /\ req'[s].attempt_id = req[s].attempt_id )
          => req'[s].qs \subseteq req[s].picked ]_vars

(* ---------------- the attempt limit under concurrent starts ------------- *)

\* C24 (as claimed): while the starts in flight are the only requests served
\* so far and none of them had a failed read of the attempt history, the
\* number of attempts of a user on a quiz with max_attempts = N > 0 is never
\* more than N, however the steps of the two requests interleave.
C24_LimitUnderConcurrency ==
    ( /\ served <= Cardinality(Slots)
      /\ \A s \in Slots : req[s].op = "start" /\ req[s].fault = {} )
    => \A u \in users, q \in DOMAIN quizzes :
         LoadQuizRules(quizzes[q]).max_attempts > 0
         => Cardinality(AttemptsOf(u, q)) <= LoadQuizRules(quizzes[q]).max_attempts

(* ---------------- a question of no known type in the loop --------------- *)

Unrecognized(q) == q.qtype \notin {"single", "multiple", "numeric", "text"}

\* C23: for a fetched question whose type is none of single, multiple,
\* numeric, text, the switch leaves is_correct absent and the count of
\* correct answers as it was; unless the save fails, the answer is recorded
\* with is_correct absent, the count still unchanged, and the loop goes on
\* with the remaining questions (or, with none left, to the result).
C23_UnknownTypeUngraded ==
    [][ \A s \in Slots :
          (req[s].op = "loop" /\ req[s].todo # <<>> /\ Unrecognized(Head(req[s].todo).q))
          => /\ req[s].pc = "switch"
                => /\ req'[s].pc = "save"
                   /\ IsNull(req'[s].isCorrect)
                   /\ req'[s].correctCount = req[s].correctCount
                   /\ answers' = answers
             /\ (req[s].pc = "save" /\ req'[s].pc # "error")
                => /\ answers' = Append(answers,
                                   [attempt_id |-> req[s].attempt_id,
                                    question_id |-> req[s].graded + 1,
                                    is_correct |-> Null])
                   /\ req'[s].correctCount = req[s].correctCount
                   /\ req'[s].todo = Tail(req[s].todo)
                   /\ req'[s].pc = IF Tail(req[s].todo) = <<>> THEN "result"
                                   ELSE "switch"
      ]_vars

\* C23 witness: the loop is through with two questions; the first, of no
\* known type, is recorded with is_correct absent, the second was graded
\* correct after it, and the count of correct answers is 1.
C23_Witness ==
    \E s \in Slots :
      /\ req[s].op = "loop" /\ req[s].pc = "result"
      /\ Len(answers) = 2
      /\ IsNull(answers[1].is_correct)
      /\ answers[2].is_correct = Some(TRUE)
      /\ req[s].correctCount = 1

(* ---------------- the login limiter ------------------------------------- *)

\* The bucket a request works on after its window check: the one it found,
\* or an empty one starting at the request's time when the one it found began
\* more than 15 minutes earlier.
Effective(r) ==
    IF r.now - r.seen.start > LoginWindow
    THEN [count |-> 0, start |-> r.now]
    ELSE [count |-> r.seen.count, start |-> r.seen.start]

\* C29: with one login request at a time, a request from an address whose
\* bucket holds 5 counted failures and began at most 15 minutes before it is
\* rejected without a credentials check, whatever its password, and leaves
\* count and window start as they were; a bucket begun more than 15 minutes
\* before is emptied and restarted at the request's time first; a request
\* let through with a wrong password adds 1 to the count and leaves the
\* window start; one with the right password sets the count to 0 and starts
\* the window at its own time.  The count is never above 5 and equals the
\* number of wrong-password checks since it was last 0.
C29_LoginRateLimit ==
    \A s \in Slots :
      (req[s].op = "login" /\ req[s].pc = "done")
      => LET r == req[s]
             b == loginLimiter[r.ip]
             e == Effective(r)
         IN  /\ b.count <= LoginLimit
             /\ b.failed = b.count
             /\ IF e.count >= LoginLimit
                THEN /\ r.resp = "limited"
                     /\ ~r.checked
                     /\ b.count = e.count /\ b.start = e.start
                ELSE /\ r.checked
                     /\ IF r.right
                        THEN r.resp = "session" /\ b.count = 0 /\ b.start = r.now
                        ELSE /\ r.resp = "invalid"
                             /\ b.count = e.count + 1 /\ b.start = e.start

\* C29 witness: a request carrying the right password, sent exactly 15
\* minutes after the window of 5 counted failures began, is rejected without
\* a credentials check.
C29_Witness ==
    \E s \in Slots :
      /\ req[s].op = "login" /\ req[s].pc = "done"
      /\ req[s].resp = "limited" /\ req[s].right /\ ~req[s].checked
      /\ req[s].now - loginLimiter[req[s].ip].start = LoginWindow
      /\ loginLimiter[req[s].ip].count = LoginLimit

\* C30 (as claimed): with two login requests of one address in flight, the
\* bucket's count is never above 5, and neither is the number of
\* wrong-password checks made since the count was last set to 0.
C30_LimitUnderConcurrency ==
    \A ip \in DOMAIN loginLimiter :
      /\ loginLimiter[ip].count <= LoginLimit
      /\ loginLimiter[ip].failed <= LoginLimit

====
